---- MODULE Spec2Model ----
(***************************************************************************)
(* Byte-level model of ATL::MemoryAllocator<block_size, blocks> and of     *)
(* ATL::TypeAllocator<T, blocks> (memoryallocator.h).                      *)
(*                                                                         *)
(* The arena is a function from addresses to bytes.  A slot is             *)
(*   [ link : vp_size bytes ][ guard : pad_bytes bytes ][ payload ]        *)
(* and the free list is threaded through the link bytes, which hold a      *)
(* little-endian pointer.  std::abort() ends the process: no operation is  *)
(* enabled afterwards.                                                     *)
(***************************************************************************)
EXTENDS Integers, Sequences, FiniteSets, TLC

VARIABLES
    T,           \* <<alignof(T), sizeof(T)>> of a TypeAllocator, NoType for a
                 \* plain MemoryAllocator
    block_size,  \* template parameter block_size
    blocks,      \* template parameter blocks
    data_,       \* address of the arena (result of new uchar[bytes_allocated])
    mem,         \* the arena's bytes: [Arena -> 0..255]
    free_list_,  \* head of the free list: the bytes of a List*
    status,      \* "running" | "aborted" (std::abort) | "undefined" (UB happened)
    outstanding, \* history: pointers handed to the caller and not yet freed
    result,      \* history: the outcome of the latest pool operation
    prev,        \* history: the outcome of the pool operation before it
    allocLog,    \* history: pointers returned since construction, while only
                 \*          Allocate() has been called
    onlyAlloc,   \* history: only Allocate() has been called since construction
    writes       \* history: number of writes the caller has made

vars == <<T, block_size, blocks, data_, mem, free_list_, status,
          outstanding, result, prev, allocLog, onlyAlloc, writes>>

----------------------------------------------------------------------------
(* Bounds of the model *)

MaxBlocks == 3
MaxWrites == 1
\* the most bytes one write runs past the end of a payload
MaxOverrun == 10

\* block sizes of the plain pools
BlockSizes == { 1, 2 }

\* <<alignof(T), sizeof(T)>> of the types of the typed pools;
\* <<4, 12>> is MyStruct of main.cpp
Types == { <<1, 1>>, <<4, 12>>, <<8, 8>> }
NoType == <<0, 0>>

\* the address operator new[] returns (aligned to the default new alignment;
\* the pool's behaviour depends on it only through its alignment)
ArenaBases == { 16 }

----------------------------------------------------------------------------
(* Program constants *)

UNALLOCATED == 170
ALLOCATED == 187
pad_bytes == 2
vp_size == 8
NULL == 0

\* the value the caller fills its payloads with: the pattern Free looks for
FillBytes == { ALLOCATED }

\* values a stray write leaves in a byte
Bytes == { 0, UNALLOCATED, ALLOCATED }

alignofT == T[1]
sizeofT == T[2]

hb_size == vp_size + pad_bytes + block_size
bytes_allocated == hb_size * blocks

Arena == data_ .. (data_ + bytes_allocated - 1)

\* [a, a + n) lies inside the arena
InArena(a, n) == a >= data_ /\ a + n <= data_ + bytes_allocated

Slots == 0 .. (blocks - 1)
SlotAddr(i) == data_ + (i * hb_size)
PayloadAddr(i) == SlotAddr(i) + vp_size + pad_bytes

----------------------------------------------------------------------------
(* Memory primitives *)

memset(m, a, val, n) ==
    [x \in DOMAIN m |-> IF x >= a /\ x < a + n THEN val ELSE m[x]]

\* A List* is its vp_size bytes, little endian.  Every address of the model
\* is below 256 * 256, so the higher bytes of a pointer into the arena are 0.
EncodePtr(v) ==
    [k \in 0 .. (vp_size - 1) |->
        IF k = 0 THEN v % 256 ELSE IF k = 1 THEN (v \div 256) % 256 ELSE 0]

\* the pointer's value is below 256 * 256
InRange(p) == \A k \in 2 .. (vp_size - 1) : p[k] = 0

\* the address an in-range pointer holds
DecodePtr(p) == p[0] + (256 * p[1])

NullPtr == EncodePtr(NULL)

\* store of a List* at address a
StorePtr(m, a, p) ==
    [x \in DOMAIN m |-> IF x >= a /\ x < a + vp_size THEN p[x - a] ELSE m[x]]

\* load of a List* from address a
LoadPtr(m, a) == [k \in 0 .. (vp_size - 1) |-> m[a + k]]

----------------------------------------------------------------------------
(* MemoryAllocator *)

\* mutant of push_list: list->next is not set
push_list_NoLink(m, head, list) ==
    [mem |-> m, head |-> EncodePtr(list)]

push_list(m, head, list) ==
    [mem |-> StorePtr(m, list, head), head |-> EncodePtr(list)]

\* mutant of pop_list: the head is not advanced
pop_list_NoAdvance(m, head) == head

pop_list(m, head) == LoadPtr(m, DecodePtr(head))

\* mutant of ConstructLoop: the slots are pushed from the last to the first
RECURSIVE ConstructLoop_Descending(_, _, _)
ConstructLoop_Descending(i, m, head) ==
    IF i >= blocks THEN [mem |-> m, head |-> head]
    ELSE LET j  == blocks - 1 - i
             m1 == memset(m, data_ + vp_size + (j * hb_size), UNALLOCATED, pad_bytes)
             p  == push_list(m1, head, data_ + (j * hb_size))
         IN  ConstructLoop_Descending(i + 1, p.mem, p.head)

RECURSIVE ConstructLoop(_, _, _)
ConstructLoop(i, m, head) ==
    IF i >= blocks THEN [mem |-> m, head |-> head]
    ELSE LET m1 == memset(m, data_ + vp_size + (i * hb_size), UNALLOCATED, pad_bytes)
             p  == push_list(m1, head, data_ + (i * hb_size))
         IN  ConstructLoop(i + 1, p.mem, p.head)

\* MemoryAllocator::MemoryAllocator()
Constructed == ConstructLoop(0, [x \in Arena |-> 0], NullPtr)

\* mutant of AllocateRes: the slot is popped before its guard is checked
AllocateRes_PopFirst(m, head) ==
    IF head = NullPtr
    THEN [status |-> "OutOfMemory", ptr |-> NULL, mem |-> m, head |-> head]
    ELSE IF ~InRange(head) \/ ~InArena(DecodePtr(head), vp_size + pad_bytes)
    THEN [status |-> "Undefined", ptr |-> NULL, mem |-> m, head |-> head]
    ELSE LET memory == DecodePtr(head) + vp_size IN
         IF \E i \in 0 .. (pad_bytes - 1) : m[memory + i] # UNALLOCATED
         THEN [status |-> "CorruptedBlock", ptr |-> NULL, mem |-> m,
               head |-> pop_list(m, head)]
         ELSE [status |-> "ok", ptr |-> memory + pad_bytes,
               mem |-> memset(m, memory, ALLOCATED, pad_bytes),
               head |-> pop_list(m, head)]

\* mutant of AllocateRes: one byte too many is set to ALLOCATED
AllocateRes_MarkTooMany(m, head) ==
    IF head = NullPtr
    THEN [status |-> "OutOfMemory", ptr |-> NULL, mem |-> m, head |-> head]
    ELSE IF ~InRange(head) \/ ~InArena(DecodePtr(head), vp_size + pad_bytes)
    THEN [status |-> "Undefined", ptr |-> NULL, mem |-> m, head |-> head]
    ELSE LET memory == DecodePtr(head) + vp_size IN
         IF \E i \in 0 .. (pad_bytes - 1) : m[memory + i] # UNALLOCATED
         THEN [status |-> "CorruptedBlock", ptr |-> NULL, mem |-> m, head |-> head]
         ELSE [status |-> "ok", ptr |-> memory + pad_bytes,
               mem |-> memset(m, memory, ALLOCATED, pad_bytes + 1),
               head |-> pop_list(m, head)]

\* mutant of AllocateRes: the guard bytes are not rewritten to ALLOCATED
AllocateRes_NoMark(m, head) ==
    IF head = NullPtr
    THEN [status |-> "OutOfMemory", ptr |-> NULL, mem |-> m, head |-> head]
    ELSE IF ~InRange(head) \/ ~InArena(DecodePtr(head), vp_size + pad_bytes)
    THEN [status |-> "Undefined", ptr |-> NULL, mem |-> m, head |-> head]
    ELSE LET memory == DecodePtr(head) + vp_size IN
         IF \E i \in 0 .. (pad_bytes - 1) : m[memory + i] # UNALLOCATED
         THEN [status |-> "CorruptedBlock", ptr |-> NULL, mem |-> m, head |-> head]
         ELSE [status |-> "ok", ptr |-> memory + pad_bytes,
               mem |-> m,
               head |-> pop_list(m, head)]

\* MemoryAllocator::Allocate(): the outcome and the memory it leaves.
\* "Undefined": free_list_ points outside the arena, the read is undefined.
AllocateRes(m, head) ==
    IF head = NullPtr
    THEN [status |-> "OutOfMemory", ptr |-> NULL, mem |-> m, head |-> head]
    ELSE IF ~InRange(head) \/ ~InArena(DecodePtr(head), vp_size + pad_bytes)
    THEN [status |-> "Undefined", ptr |-> NULL, mem |-> m, head |-> head]
    ELSE LET memory == DecodePtr(head) + vp_size IN
         IF \E i \in 0 .. (pad_bytes - 1) : m[memory + i] # UNALLOCATED
         THEN [status |-> "CorruptedBlock", ptr |-> NULL, mem |-> m, head |-> head]
         ELSE [status |-> "ok", ptr |-> memory + pad_bytes,
               mem |-> memset(m, memory, ALLOCATED, pad_bytes),
               head |-> pop_list(m, head)]

\* mutant of FreeRes: the guard bytes are not checked
FreeRes_NoGuardCheck(m, head, block) ==
    IF block = NULL
    THEN [status |-> "NullFree", mem |-> m, head |-> head]
    ELSE LET mm == block - pad_bytes IN
         IF ~InArena(mm - vp_size, vp_size + pad_bytes)
         THEN [status |-> "Undefined", mem |-> m, head |-> head]
         ELSE LET p == push_list(memset(m, mm, UNALLOCATED, pad_bytes), head, mm - vp_size)
              IN  [status |-> "ok", mem |-> p.mem, head |-> p.head]

\* mutant of FreeRes: the guard address is pushed instead of the slot's start
FreeRes_PushGuardAddr(m, head, block) ==
    IF block = NULL
    THEN [status |-> "NullFree", mem |-> m, head |-> head]
    ELSE LET mm == block - pad_bytes IN
         IF ~InArena(mm, pad_bytes)
         THEN [status |-> "Undefined", mem |-> m, head |-> head]
         ELSE IF \E i \in 0 .. (pad_bytes - 1) : m[mm + i] # ALLOCATED
         THEN [status |-> "CorruptedBlock", mem |-> m, head |-> head]
         ELSE IF ~InArena(mm, vp_size)
         THEN [status |-> "Undefined", mem |-> m, head |-> head]
         ELSE LET p == push_list(memset(m, mm, UNALLOCATED, pad_bytes), head, mm)
              IN  [status |-> "ok", mem |-> p.mem, head |-> p.head]

\* mutant of FreeRes: one byte too many is set to UNALLOCATED
FreeRes_MarkTooMany(m, head, block) ==
    IF block = NULL
    THEN [status |-> "NullFree", mem |-> m, head |-> head]
    ELSE LET mm == block - pad_bytes IN
         IF ~InArena(mm, pad_bytes)
         THEN [status |-> "Undefined", mem |-> m, head |-> head]
         ELSE IF \E i \in 0 .. (pad_bytes - 1) : m[mm + i] # ALLOCATED
         THEN [status |-> "CorruptedBlock", mem |-> m, head |-> head]
         ELSE IF ~InArena(mm - vp_size, vp_size)
         THEN [status |-> "Undefined", mem |-> m, head |-> head]
         ELSE LET p == push_list(memset(m, mm, UNALLOCATED, pad_bytes + 1), head,
                                 mm - vp_size)
              IN  [status |-> "ok", mem |-> p.mem, head |-> p.head]

\* mutant of FreeRes: the safety check stops one guard byte short
FreeRes_CheckOneByteLess(m, head, block) ==
    IF block = NULL
    THEN [status |-> "NullFree", mem |-> m, head |-> head]
    ELSE LET mm == block - pad_bytes IN
         IF ~InArena(mm, pad_bytes)
         THEN [status |-> "Undefined", mem |-> m, head |-> head]
         ELSE IF \E i \in 0 .. (pad_bytes - 2) : m[mm + i] # ALLOCATED
         THEN [status |-> "CorruptedBlock", mem |-> m, head |-> head]
         ELSE IF ~InArena(mm - vp_size, vp_size)
         THEN [status |-> "Undefined", mem |-> m, head |-> head]
         ELSE LET p == push_list(memset(m, mm, UNALLOCATED, pad_bytes), head,
                                 mm - vp_size)
              IN  [status |-> "ok", mem |-> p.mem, head |-> p.head]

\* mutant of FreeRes: a null pointer is ignored instead of aborting
FreeRes_IgnoreNull(m, head, block) ==
    IF block = NULL
    THEN [status |-> "ok", mem |-> m, head |-> head]
    ELSE LET mm == block - pad_bytes IN
         IF ~InArena(mm, pad_bytes)
         THEN [status |-> "Undefined", mem |-> m, head |-> head]
         ELSE IF \E i \in 0 .. (pad_bytes - 1) : m[mm + i] # ALLOCATED
         THEN [status |-> "CorruptedBlock", mem |-> m, head |-> head]
         ELSE IF ~InArena(mm - vp_size, vp_size)
         THEN [status |-> "Undefined", mem |-> m, head |-> head]
         ELSE LET p == push_list(memset(m, mm, UNALLOCATED, pad_bytes), head, mm - vp_size)
              IN  [status |-> "ok", mem |-> p.mem, head |-> p.head]

\* MemoryAllocator::Free(block): the outcome and the memory it leaves.
\* "NullFree" and "CorruptedBlock" are the two std::abort() calls.
FreeRes(m, head, block) ==
    IF block = NULL
    THEN [status |-> "NullFree", mem |-> m, head |-> head]
    ELSE LET mm == block - pad_bytes IN
         IF ~InArena(mm, pad_bytes)
         THEN [status |-> "Undefined", mem |-> m, head |-> head]
         ELSE IF \E i \in 0 .. (pad_bytes - 1) : m[mm + i] # ALLOCATED
         THEN [status |-> "CorruptedBlock", mem |-> m, head |-> head]
         ELSE IF ~InArena(mm - vp_size, vp_size)
         THEN [status |-> "Undefined", mem |-> m, head |-> head]
         ELSE LET p == push_list(memset(m, mm, UNALLOCATED, pad_bytes), head, mm - vp_size)
              IN  [status |-> "ok", mem |-> p.mem, head |-> p.head]

\* mutant of CanAllocate: the arena pointer is tested instead of the list head
CanAllocate_DataPtr == data_ # NULL

\* MemoryAllocator::CanAllocate()
CanAllocate == free_list_ # NullPtr

----------------------------------------------------------------------------
(* TypeAllocator *)

\* mutant of AlignCheck: the address is returned as it came
AlignCheck_NoAlign(memory) == memory

\* std::align(alignof(T), sizeof(T), memory, s) with s = b_size
AlignCheck(memory) ==
    LET s       == block_size
        aligned == ((memory + alignofT - 1) \div alignofT) * alignofT
        diff    == aligned - memory
    IN  IF sizeofT > s \/ diff > s - sizeofT THEN NULL ELSE aligned

\* TypeAllocator::Free(block): the outcome and the memory it leaves; raw is
\* the pointer passed to MemoryAllocator::Free, dtor the runs of ~T()
TFreeRes(m, head, block) ==
    IF block = NULL
    THEN [status |-> "NullFree", mem |-> m, head |-> head, raw |-> NULL, dtor |-> 0]
    ELSE LET r == FreeRes(m, head, block)
         IN  [status |-> r.status, mem |-> r.mem, head |-> r.head,
              raw |-> block, dtor |-> 1]

----------------------------------------------------------------------------
(* History records *)

\* op, status: the operation and its outcome; ptr: the pointer returned;
\* arg: the pointer passed; raw: the pointer exchanged with the underlying
\* pool; ctor, dtor: runs of T's constructor and destructor in the call;
\* owned: arg was outstanding when the call was made
NoResult == [op |-> "none", status |-> "ok", ptr |-> NULL, arg |-> NULL,
             raw |-> NULL, ctor |-> 0, dtor |-> 0, owned |-> FALSE]

\* what is kept of an outcome once the next operation has been made
Summary(r) == [op |-> r.op, status |-> r.status, arg |-> r.arg]

\* an undefined read shows bytes that fail the guard check, or anything else
Outcomes(s) == IF s = "Undefined" THEN {"Undefined", "CorruptedBlock"} ELSE {s}

\* the process after an outcome: std::abort() and undefined behaviour end it
StatusAfterFree(o) ==
    IF o = "ok" THEN "running" ELSE IF o = "Undefined" THEN "undefined" ELSE "aborted"

\* the process after a throw of Allocate: the caller may catch it
StatusAfterAllocate(o) == IF o = "Undefined" THEN "undefined" ELSE "running"

----------------------------------------------------------------------------
(* Initial states: the pool right after construction *)

InitPool ==
    /\ blocks \in 1 .. MaxBlocks
    /\ data_ \in ArenaBases
    /\ mem = Constructed.mem
    /\ free_list_ = Constructed.head
    /\ status = "running"
    /\ outstanding = {}
    /\ result = NoResult
    /\ prev = Summary(NoResult)
    /\ allocLog = << >>
    /\ onlyAlloc = TRUE
    /\ writes = 0

\* MemoryAllocator<block_size, blocks>
Init ==
    /\ T = NoType
    /\ block_size \in BlockSizes
    /\ InitPool

\* TypeAllocator<T, blocks> : MemoryAllocator<alignof(T) + sizeof(T), blocks>
InitTyped ==
    /\ T \in Types
    /\ block_size = T[1] + T[2]
    /\ InitPool

----------------------------------------------------------------------------
(* Operations of MemoryAllocator *)

\* void* Allocate()
Allocate ==
    /\ status = "running"
    /\ LET r == AllocateRes(mem, free_list_) IN
       \E o \in Outcomes(r.status) :
          /\ mem' = r.mem
          /\ free_list_' = r.head
          /\ status' = StatusAfterAllocate(o)
          /\ outstanding' = IF o = "ok" THEN outstanding \cup {r.ptr} ELSE outstanding
          /\ result' = [NoResult EXCEPT !.op = "Allocate", !.status = o,
                                        !.ptr = r.ptr, !.raw = r.ptr]
          /\ allocLog' = IF onlyAlloc /\ o = "ok" THEN Append(allocLog, r.ptr)
                                                  ELSE allocLog
    /\ prev' = Summary(result)
    /\ UNCHANGED <<T, block_size, blocks, data_, onlyAlloc, writes>>

\* void Free(void* block) noexcept
FreeOp(block) ==
    /\ status = "running"
    /\ LET r == FreeRes(mem, free_list_, block) IN
       \E o \in Outcomes(r.status) :
          /\ mem' = r.mem
          /\ free_list_' = r.head
          /\ status' = StatusAfterFree(o)
          /\ outstanding' = IF o = "ok" THEN outstanding \ {block} ELSE outstanding
          /\ result' = [NoResult EXCEPT !.op = "Free", !.status = o, !.arg = block,
                                        !.raw = block,
                                        !.owned = (block \in outstanding)]
    /\ prev' = Summary(result)
    /\ allocLog' = << >>
    /\ onlyAlloc' = FALSE
    /\ UNCHANGED <<T, block_size, blocks, data_, writes>>

\* the caller frees a payload address of the pool, or nullptr
Free == \E block \in {NULL} \cup {PayloadAddr(i) : i \in Slots} : FreeOp(block)

\* the caller fills a payload it owns: std::memset(p, b, block_size); a
\* pointer the pool returned after a misuse may leave less than block_size
\* bytes of the arena behind it, and the write is then undefined
WritePayload ==
    /\ status = "running"
    /\ writes < MaxWrites
    /\ \E p \in outstanding, b \in FillBytes :
          IF InArena(p, block_size)
          THEN /\ \E off \in 0 .. (block_size - 1) : mem[p + off] # b
               /\ mem' = memset(mem, p, b, block_size)
               /\ status' = status
          ELSE /\ mem' = mem
               /\ status' = "undefined"
    /\ writes' = writes + 1
    /\ UNCHANGED <<T, block_size, blocks, data_, free_list_,
                   outstanding, result, prev, allocLog, onlyAlloc>>

\* the caller frees an address of the arena, whether the pool handed it out
\* or not
FreeAny == \E block \in Arena : FreeOp(block)

\* the caller writes a byte anywhere in the arena: an overrun of a payload,
\* a write through a freed pointer
Tamper ==
    /\ status = "running"
    /\ writes < MaxWrites
    /\ \E a \in Arena, b \in Bytes :
          /\ mem[a] # b
          /\ mem' = [mem EXCEPT ![a] = b]
    /\ writes' = writes + 1
    /\ UNCHANGED <<T, block_size, blocks, data_, free_list_, status,
                   outstanding, result, prev, allocLog, onlyAlloc>>

\* the holder of a payload writes n bytes past its end, into the slot that
\* follows: std::memset(p + block_size, b, n)
Overrun ==
    /\ status = "running"
    /\ writes < MaxWrites
    /\ \E p \in outstanding, n \in 1 .. MaxOverrun, b \in Bytes :
          /\ InArena(p + block_size, n)
          /\ \E off \in 0 .. (n - 1) : mem[p + block_size + off] # b
          /\ mem' = memset(mem, p + block_size, b, n)
    /\ writes' = writes + 1
    /\ UNCHANGED <<T, block_size, blocks, data_, free_list_, status,
                   outstanding, result, prev, allocLog, onlyAlloc>>

----------------------------------------------------------------------------
(* Operations of TypeAllocator *)

\* T* Allocate(Args&&... args); ctor_ok: T's constructor returns, else throws
TAllocateOp(ctor_ok) ==
    /\ status = "running"
    /\ LET r       == AllocateRes(mem, free_list_)
           aligned == IF r.status = "ok" THEN AlignCheck(r.ptr) ELSE NULL
       IN
       \E o \in Outcomes(r.status) :
          LET final == IF o # "ok" THEN o
                       ELSE IF aligned = NULL THEN "AllocationFailed"
                       ELSE IF ctor_ok THEN "ok" ELSE "CtorFailed"
          IN
          /\ mem' = r.mem
          /\ free_list_' = r.head
          /\ status' = StatusAfterAllocate(o)
          /\ outstanding' = IF final = "ok" THEN outstanding \cup {aligned}
                                            ELSE outstanding
          /\ result' = [NoResult EXCEPT
                          !.op = "TAllocate", !.status = final,
                          !.ptr = IF final = "ok" THEN aligned ELSE NULL,
                          !.raw = r.ptr,
                          !.ctor = IF o = "ok" /\ aligned # NULL THEN 1 ELSE 0]
    /\ prev' = Summary(result)
    /\ allocLog' = << >>
    /\ onlyAlloc' = FALSE
    /\ UNCHANGED <<T, block_size, blocks, data_, writes>>

TAllocate == \E ctor_ok \in BOOLEAN : TAllocateOp(ctor_ok)

\* void Free(T* block) noexcept
TFreeOp(block) ==
    /\ status = "running"
    /\ LET r == TFreeRes(mem, free_list_, block) IN
       \E o \in Outcomes(r.status) :
          /\ mem' = r.mem
          /\ free_list_' = r.head
          /\ status' = StatusAfterFree(o)
          /\ outstanding' = IF o = "ok" THEN outstanding \ {block} ELSE outstanding
          /\ result' = [NoResult EXCEPT
                          !.op = "TFree", !.status = o, !.arg = block,
                          !.raw = r.raw, !.dtor = r.dtor,
                          !.owned = (block \in outstanding)]
    /\ prev' = Summary(result)
    /\ allocLog' = << >>
    /\ onlyAlloc' = FALSE
    /\ UNCHANGED <<T, block_size, blocks, data_, writes>>

\* the caller frees the address of a T in a slot of the pool, or nullptr
TFree == \E block \in {NULL} \cup {AlignCheck(PayloadAddr(i)) : i \in Slots} :
            TFreeOp(block)

\* operator delete of CREATE_CLASS_DELETE: the address of a T in a slot of
\* the pool, or nullptr, goes to MemoryAllocator::Free
Delete == \E block \in {NULL} \cup {AlignCheck(PayloadAddr(i)) : i \in Slots} :
             FreeOp(block)

----------------------------------------------------------------------------
(* Specifications *)

\* a plain pool used by a caller that writes only into payloads it owns
Next == Allocate \/ Free \/ WritePayload
Spec == Init /\ [][Next]_vars

\* a plain pool whose caller also writes outside its payloads
NextTamper == Allocate \/ Free \/ Tamper
SpecTamper == Init /\ [][NextTamper]_vars

\* a plain pool whose caller writes past the end of a payload it owns
NextOverrun == Allocate \/ Free \/ Overrun
SpecOverrun == Init /\ [][NextOverrun]_vars

\* a plain pool whose caller writes only into payloads it owns and frees any
\* address of the arena
NextMisuse == Allocate \/ FreeAny \/ WritePayload
SpecMisuse == Init /\ [][NextMisuse]_vars

\* a typed pool used through TypeAllocator's own operations
NextTyped == TAllocate \/ TFree
SpecTyped == InitTyped /\ [][NextTyped]_vars

\* a typed pool whose objects are released through TypeAllocator::Free or
\* through operator delete
NextAll == TAllocate \/ TFree \/ Delete
SpecAll == InitTyped /\ [][NextAll]_vars

----------------------------------------------------------------------------
(* Definitions the properties use *)

\* the slots' start addresses the free list visits from head, at most fuel of them
RECURSIVE Chain(_, _, _)
Chain(m, head, fuel) ==
    IF fuel = 0 \/ head = NullPtr \/ ~InRange(head)
       \/ ~InArena(DecodePtr(head), vp_size)
    THEN << >>
    ELSE <<DecodePtr(head)>> \o Chain(m, LoadPtr(m, DecodePtr(head)), fuel - 1)

FreeChain == Chain(mem, free_list_, blocks + 1)

Occurrences(seq, x) == Cardinality({k \in 1 .. Len(seq) : seq[k] = x})

\* both guard bytes of the slot that starts at a have the value val
GuardIs(a, val) == \A i \in 0 .. (pad_bytes - 1) : mem[a + vp_size + i] = val

\* the slot whose payload holds address p
SlotOf(p) == CHOOSE i \in Slots : p >= PayloadAddr(i) /\ p < PayloadAddr(i) + block_size

----------------------------------------------------------------------------
(* MemoryAllocator: allocation and release *)

\* C1: on a freshly constructed pool with N blocks, exactly N consecutive
\* Allocate() calls succeed, their payloads are pairwise disjoint ranges of
\* block_size bytes inside the arena, and every further call fails with
\* OutOfMemory.
C1_ExactlyNAllocations ==
    onlyAlloc =>
      /\ Len(allocLog) <= blocks
      /\ \A i, j \in 1 .. Len(allocLog) :
            i # j => \/ allocLog[i] + block_size <= allocLog[j]
                     \/ allocLog[j] + block_size <= allocLog[i]
      /\ \A i \in 1 .. Len(allocLog) : InArena(allocLog[i], block_size)
      /\ Len(allocLog) < blocks => result.status = "ok"
      /\ result.op = "Allocate" =>
            \/ result.status = "ok"
            \/ result.status = "OutOfMemory" /\ Len(allocLog) = blocks

C1_Witness ==
    /\ onlyAlloc
    /\ blocks >= 3
    /\ Len(allocLog) = blocks
    /\ result.op = "Allocate"
    /\ result.status = "OutOfMemory"

\* C2: CanAllocate() is true iff fewer than N allocations are outstanding.
C2_CanAllocateIffRoom == CanAllocate <=> (Cardinality(outstanding) < blocks)

C2_Witness ==
    /\ ~CanAllocate
    /\ Cardinality(outstanding) = blocks
    /\ blocks >= 2
    /\ prev.op = "Free"
    /\ prev.status = "ok"

\* C3: the Allocate() that follows a successful Free(p) succeeds and returns p.
C3_LifoReuse ==
    (prev.op = "Free" /\ prev.status = "ok" /\ result.op = "Allocate")
        => (result.status = "ok" /\ result.ptr = prev.arg)

\* the pool was full when p was freed, and is full again
C3_Witness ==
    /\ prev.op = "Free"
    /\ prev.status = "ok"
    /\ result.op = "Allocate"
    /\ result.ptr = prev.arg
    /\ blocks >= 2
    /\ ~CanAllocate

\* C4: Free(p); Free(p) - the second call fails with CorruptedBlock and the
\* slot of p is on the free list once, with its guard bytes UNALLOCATED.
C4_DoubleFreeDetected ==
    (prev.op = "Free" /\ prev.status = "ok" /\ result.op = "Free"
       /\ result.arg = prev.arg)
        => /\ result.status = "CorruptedBlock"
           /\ Occurrences(FreeChain, result.arg - pad_bytes - vp_size) = 1
           /\ GuardIs(result.arg - pad_bytes - vp_size, UNALLOCATED)

C4_Witness ==
    /\ prev.op = "Free"
    /\ prev.status = "ok"
    /\ result.op = "Free"
    /\ result.arg = prev.arg
    /\ result.status = "CorruptedBlock"
    /\ status = "aborted"
    /\ Len(FreeChain) >= 2

----------------------------------------------------------------------------
(* TypeAllocator *)

\* C5: TypeAllocator::Free(p) of an outstanding p hands the pool the raw
\* payload address of p's slot, succeeds, and leaves the slot UNALLOCATED at
\* the head of the free list.
C5_TypedFreePassesRawAddress ==
    (result.op = "TFree" /\ result.owned)
        => /\ result.raw = PayloadAddr(SlotOf(result.arg))
           /\ result.status = "ok"
           /\ GuardIs(SlotAddr(SlotOf(result.arg)), UNALLOCATED)
           /\ free_list_ = EncodePtr(SlotAddr(SlotOf(result.arg)))

\* C6: the pointer TypeAllocator::Allocate returns is aligned to alignof(T),
\* is the first aligned address at or after the payload start, and leaves
\* sizeof(T) bytes inside the payload of alignof(T) + sizeof(T) bytes.
C6_AlignedInsideSlot ==
    (result.op = "TAllocate" /\ result.status = "ok")
        => /\ result.ptr % alignofT = 0
           /\ result.ptr >= result.raw
           /\ \A a \in result.raw .. (result.ptr - 1) : a % alignofT # 0
           /\ result.ptr + sizeofT <= result.raw + alignofT + sizeofT
           /\ \E i \in Slots : result.raw = PayloadAddr(i)

\* the payload start was misaligned and the pointer was moved
C6_Witness ==
    /\ result.op = "TAllocate"
    /\ result.status = "ok"
    /\ result.ptr > result.raw
    /\ alignofT >= 4

\* C7: T's constructor runs once in a successful typed Allocate and not in
\* one that fails with OutOfMemory or CorruptedBlock; T's destructor runs
\* once in a successful typed Free and not in one that fails.
C7_CtorDtorOnlyOnSuccess ==
    /\ result.op = "TAllocate" =>
          /\ result.status = "ok" => result.ctor = 1
          /\ result.status \in {"OutOfMemory", "CorruptedBlock"} => result.ctor = 0
    /\ result.op = "TFree" =>
          /\ result.status = "ok" => result.dtor = 1
          /\ result.status # "ok" => result.dtor = 0

\* C8: when T's constructor throws, the slot obtained from the pool is
\* UNALLOCATED and at the head of the free list again.
C8_CtorFailureReleasesSlot ==
    (result.op = "TAllocate" /\ result.status = "CtorFailed")
        => /\ GuardIs(result.raw - pad_bytes - vp_size, UNALLOCATED)
           /\ free_list_ = EncodePtr(result.raw - pad_bytes - vp_size)
           /\ Occurrences(FreeChain, result.raw - pad_bytes - vp_size) = 1

----------------------------------------------------------------------------
(* Failures *)

\* C9, as claimed: Free(nullptr) fails with NullFree and the pool remains
\* usable afterwards.
C9_NullFreeRecoverable ==
    (result.op \in {"Free", "TFree"} /\ result.arg = NULL)
        => (result.status = "NullFree" /\ status = "running")

\* C9, amended: Free(nullptr), of MemoryAllocator and of TypeAllocator, calls
\* std::abort(): it runs no destructor and leaves the free list and the
\* arena unchanged, and the process ends.
C9_NullFreeAborts ==
    [][(result'.op \in {"Free", "TFree"} /\ result'.arg = NULL)
          => /\ result'.status = "NullFree"
             /\ result'.dtor = 0
             /\ status' = "aborted"
             /\ mem' = mem
             /\ free_list_' = free_list_]_vars

C9_Witness ==
    /\ result.op = "TFree"
    /\ result.arg = NULL
    /\ result.status = "NullFree"
    /\ status = "aborted"
    /\ outstanding # {}

\* C10: an Allocate() or Free(p) that fails its guard check changes neither
\* the free-list head nor any byte of the arena.
C10_GuardFailureChangesNothing ==
    [][(writes' = writes /\ result'.op \in {"Allocate", "Free"}
          /\ result'.status = "CorruptedBlock")
          => (mem' = mem /\ free_list_' = free_list_)]_vars

\* Allocate() has met a head slot whose guard bytes are not UNALLOCATED
C10_Witness ==
    /\ result.op = "Allocate"
    /\ result.status = "CorruptedBlock"
    /\ status = "running"
    /\ InRange(free_list_)
    /\ InArena(DecodePtr(free_list_), vp_size + pad_bytes)
    /\ ~GuardIs(DecodePtr(free_list_), UNALLOCATED)

----------------------------------------------------------------------------
(* The free list and the guard bytes *)

\* the slots the free list visits from its head
FreeSlots == {FreeChain[k] : k \in 1 .. Len(FreeChain)}

\* the slots whose payload pointer the caller holds
HeldSlots == {p - pad_bytes - vp_size : p \in outstanding}

\* C11: every slot reachable from the free-list head has both guard bytes
\* UNALLOCATED, every slot whose pointer is outstanding has both guard bytes
\* ALLOCATED, and no slot is both on the list and outstanding.
C11_GuardsMatchState ==
    /\ \A a \in FreeSlots : GuardIs(a, UNALLOCATED)
    /\ \A a \in HeldSlots : GuardIs(a, ALLOCATED)
    /\ FreeSlots \cap HeldSlots = {}

\* slots of both kinds exist, after a free and a write into a payload
C11_Witness ==
    /\ FreeSlots # {}
    /\ HeldSlots # {}
    /\ prev.op = "Free"
    /\ prev.status = "ok"
    /\ result.op = "Allocate"
    /\ writes > 0
    /\ status = "running"

\* C15: on a freshly constructed pool the k-th Allocate() returns the payload
\* address of slot N-k, data_ + (N-k)*hb_size + vp_size + pad_bytes.
C15_DescendingOrder ==
    onlyAlloc =>
        \A k \in 1 .. Len(allocLog) :
            allocLog[k] = data_ + ((blocks - k) * hb_size) + vp_size + pad_bytes

\* every slot of a pool of at least 3 blocks has been handed out
C15_Witness ==
    /\ onlyAlloc
    /\ blocks >= 3
    /\ Len(allocLog) = blocks
    /\ allocLog[1] > allocLog[2]
    /\ allocLog[blocks] = PayloadAddr(0)

\* C17: the free list is a chain of pairwise distinct slot starts that ends in
\* null, and the slots on it and the outstanding allocations add up to N.
C17_FreeListWellFormed ==
    /\ Len(FreeChain) <= blocks
    /\ \A k \in 1 .. Len(FreeChain) : \E i \in Slots : FreeChain[k] = SlotAddr(i)
    /\ \A j, k \in 1 .. Len(FreeChain) : j # k => FreeChain[j] # FreeChain[k]
    /\ IF Len(FreeChain) = 0 THEN free_list_ = NullPtr
       ELSE LoadPtr(mem, FreeChain[Len(FreeChain)]) = NullPtr
    /\ Len(FreeChain) + Cardinality(outstanding) = blocks

\* a list of two slots that were freed out of address order
C17_Witness ==
    /\ Len(FreeChain) >= 2
    /\ FreeChain[1] < FreeChain[2]
    /\ outstanding # {}
    /\ prev.op = "Free"
    /\ result.op = "Free"
    /\ result.status = "ok"

----------------------------------------------------------------------------
(* What a successful operation leaves alone *)

\* C16: a successful Allocate() pops the head slot and changes its guard
\* bytes; the slot's link and payload and every byte of every other slot
\* stay as they were.
C16_AllocateTouchesOnlyGuard ==
    [][(writes' = writes /\ result'.op = "Allocate" /\ result'.status = "ok")
          => LET slot == result'.ptr - pad_bytes - vp_size IN
             /\ free_list_ = EncodePtr(slot)
             /\ free_list_' = LoadPtr(mem, slot)
             /\ \A a \in Arena :
                   (a < slot + vp_size \/ a >= slot + vp_size + pad_bytes)
                       => mem'[a] = mem[a]]_vars

\* a slot was handed out again with the payload its last holder left in it
C16_Witness ==
    /\ result.op = "Allocate"
    /\ result.status = "ok"
    /\ mem[result.ptr] = ALLOCATED
    /\ prev.op = "Free"
    /\ Cardinality(outstanding) >= 2

\* C18: a successful Free(p) changes the head and the freed slot's link and
\* guard bytes; the slot's payload and every byte of every other slot stay as
\* they were.
C18_FreeTouchesOnlyLinkAndGuard ==
    [][(writes' = writes /\ result'.op = "Free" /\ result'.status = "ok")
          => LET slot == result'.arg - pad_bytes - vp_size IN
             /\ free_list_' = EncodePtr(slot)
             /\ \A a \in Arena :
                   (a < slot \/ a >= slot + vp_size + pad_bytes)
                       => mem'[a] = mem[a]]_vars

\* a filled payload was freed while another allocation is outstanding
C18_Witness ==
    /\ result.op = "Free"
    /\ result.status = "ok"
    /\ mem[result.arg] = ALLOCATED
    /\ outstanding # {}
    /\ free_list_ = EncodePtr(result.arg - pad_bytes - vp_size)

----------------------------------------------------------------------------
(* The alignment slack of the typed pool *)

\* C14: with block_size = alignof(T) + sizeof(T) the alignment search finds
\* an address from every payload address, so a typed Allocate never fails
\* with AllocationFailed, and whenever it popped a slot and marked it
\* ALLOCATED it returned that slot to the caller.
C14_AlignmentNeverLosesSlot ==
    /\ \A a \in Arena : AlignCheck(a) # NULL
    /\ result.op = "TAllocate" => result.status # "AllocationFailed"
    /\ (result.op = "TAllocate" /\ result.raw # NULL)
           => /\ result.status = "ok"
              /\ result.ptr \in outstanding

----------------------------------------------------------------------------
(* Overruns and frees of addresses the pool did not hand out *)

\* C13: a write past the end of a payload into the next slot's link and
\* guard bytes is detected before the link is followed or installed: the
\* free-list head is always null or the start of a slot of the arena.
C13_OverrunNeverReachesHead ==
    status \in {"running", "aborted"}
        => \/ free_list_ = NullPtr
           \/ /\ InRange(free_list_)
              /\ \E i \in Slots : DecodePtr(free_list_) = SlotAddr(i)

\* C12 as stated: Free(p) of an address of the arena that is not the payload
\* address of a currently allocated slot fails with CorruptedBlock and
\* pushes nothing, whatever the caller wrote into the payloads it owns.
C12_OnlyOwnedPayloadFreed ==
    [][(/\ writes' = writes
        /\ result'.op = "Free"
        /\ result'.arg \in Arena
        /\ result'.arg \notin outstanding
        /\ result'.status # "Undefined")
          => /\ result'.status = "CorruptedBlock"
             /\ free_list_' = free_list_
             /\ mem' = mem]_vars

\* C12 as amended: Free(p) of such an address succeeds only when the
\* pad_bytes bytes before p all hold ALLOCATED; when they lie in the arena
\* and do not, it fails with CorruptedBlock and pushes nothing.
C12_FreeNeedsAllocatedBytesBefore ==
    [][(/\ writes' = writes
        /\ result'.op = "Free"
        /\ result'.arg \in Arena
        /\ result'.arg \notin outstanding)
          => LET g == result'.arg - pad_bytes IN
             /\ result'.status = "ok"
                   => /\ InArena(g, pad_bytes)
                      /\ \A i \in 0 .. (pad_bytes - 1) : mem[g + i] = ALLOCATED
             /\ (/\ InArena(g, pad_bytes)
                 /\ \E i \in 0 .. (pad_bytes - 1) : mem[g + i] # ALLOCATED)
                   => /\ result'.status = "CorruptedBlock"
                      /\ status' = "aborted"
                      /\ free_list_' = free_list_
                      /\ mem' = mem]_vars

\* after a write, the free of an address inside a held payload was refused
C12_Witness ==
    /\ result.op = "Free"
    /\ result.status = "CorruptedBlock"
    /\ ~result.owned
    /\ writes > 0
    /\ \E q \in outstanding :
          /\ result.arg > q
          /\ result.arg < q + block_size

====
